---- MODULE Spec2Model ----
(***************************************************************************)
(* A model of the side-scrolling shooter's simulation loop                 *)
(* (src/components/GameCanvas.tsx), of the application shell that starts   *)
(* and ends a run (src/App.tsx) and of the briefing request it waits for   *)
(* (src/services/geminiService.ts).                                        *)
(*                                                                         *)
(* What is modelled exactly: the frame counter, the score, the boss-active *)
(* flag, the player's hp and weapon, the fire key, every entity's kind,    *)
(* subtype, hp, removal flag, boss phase, attack timer, penetration and    *)
(* ttl, the order of the entity array, and the order of the steps of one   *)
(* tick (shoot, spawn, update loop, collision loop, cleanup, HUD sync,     *)
(* game-over check, reschedule).                                           *)
(*                                                                         *)
(* The player's vertical motion is modelled exactly, in tenths of a pixel  *)
(* (gravity 0.6 is 6, the jump impulse -14 is -140), against the four      *)
(* platforms initLevel lays out from the canvas size; rounding of the      *)
(* floating-point sums is not modelled.  The player's vel.x is kept as     *)
(* base * 0.8^k (a pair base, k).  Its pos.x is kept exactly, in pixels,   *)
(* for as long as vel.x is a whole number (k = 0: at rest, a direction key *)
(* held, or just thrown by a contact); once friction has scaled vel.x,     *)
(* pos.x is unknown (any value within the canvas) until the bounds of      *)
(* lines 221-222 stop the player at an edge.  An ordinary enemy carries    *)
(* its vel.x and what its last pass through the update loop added to its   *)
(* pos.x; a projectile carries its kind (aimed, straight, bomb).  Every     *)
(* entity carries its id: the prefix, the clock value read when it was     *)
(* pushed, and whether a random draw is part of it.                        *)
(*                                                                         *)
(* What is abstracted: the entities' pixel positions.  The result of every *)
(* rectangle overlap test (isColliding) and of every leaves-the-screen     *)
(* test is an input of the tick, drawn with \E; so are the Math.random()   *)
(* draws, which raised platform a player of unknown pos.x is over, whether *)
(* its move takes it beyond an edge, and whether the canvas and its 2D     *)
(* context are there when update is called.  The briefing request ends in  *)
(* one of four ways: rejected, an empty text, a text that is not JSON, or  *)
(* the object the response schema asks for.  The value Date.now() returns  *)
(* is an input of the tick as well: a new value, or (in one frame of the   *)
(* exploration) the value the tick before read.                            *)
(* The boss's x position is kept exactly, as its distance dx to the        *)
(* position where it stops.  Entities of type 'particle' are cosmetic (no  *)
(* rule of update reads them, their hp is 1 for ever): the sequence        *)
(* "entities" is entitiesRef.current without its particles.  The keys      *)
(* ArrowUp and ArrowDown set flags that nothing reads: they are left out.  *)
(*                                                                         *)
(* Fields pen0, hits, flagHit and age of a bullet, hitsTaken, vx0 and step *)
(* of an enemy, and the variables purged, log, gameOverCalls, bossSpawns,     *)
(* bossKills and impulses are history variables: they record what a step   *)
(* did and are read by no action.  log.hud is the snapshot the last tick   *)
(* passed to setHudState, if it passed one.                                *)
(***************************************************************************)
EXTENDS Integers, Sequences, FiniteSets

VARIABLES
  gameStatus,     \* App.tsx `status`, as committed
  mission,        \* App.tsx `mission`: the codename of the briefing, or "null"
  isLoading,      \* App.tsx `isLoading`: startGame is waiting for the briefing
  pendingOver,    \* state updates queued by handleGameOver, not yet committed
  cleanupPending, \* a commit left PLAYING and the loop effect's cleanup has not run yet
  rafPending,     \* requestRef holds a scheduled frame callback
  canvas,         \* canvasRef: [width, height], in pixels
  platforms,      \* platformsRef: the four platforms, y and height in tenths of a pixel
  frameCount,     \* frameCountRef
  bossActive,     \* bossActiveRef
  score,          \* scoreRef
  player,         \* playerRef: [hp, weaponType, x, y, vx, vy, isGrounded, direction]
  input,          \* inputRef: [left, right, jump, fire]
  entities,       \* entitiesRef (without particles), in array order
  purged,         \* history: the entities the last tick's cleanup removed
  log,            \* history: what the last tick did
  gameOverCalls,  \* history: calls of onGameOver since the status entered PLAYING
  bossSpawns,     \* history: calls of spawnBoss since the last initLevel
  bossKills,      \* history: boss deaths since the last initLevel
  impulses        \* history: jump impulses since the jump latch was last cleared

vars == <<gameStatus, mission, isLoading, pendingOver, cleanupPending, rafPending,
          canvas, platforms, frameCount, bossActive, score, player, input, entities, purged, log,
          gameOverCalls, bossSpawns, bossKills, impulses>>

----------------------------------------------------------------------------
(* Program constants *)

BOSS_SPAWN_SCORE == 1500
ENEMY_SPAWN_PERIOD == 120
POWERUP_SPAWN_PERIOD == 900
BOSS_HP == 150
PLAYER_HP == 100
CONTACT_DAMAGE == 10
LASER_PENETRATION == 5
FLAME_TTL == 30
\* From where the boss is spawned (canvas.width + 100) to where it stops
\* (canvas.width - size.width - 50, its width being 120).
BOSS_ENTER_DISTANCE == 270
ENEMY_SCORE == 100
POWERUP_SCORE == 500
BOSS_SCORE == 5000
\* Lengths and speeds along y are in tenths of a pixel.
GRAVITY == 6
JUMP_FORCE == -140
KNOCKBACK_VY == -50
PLAYER_HEIGHT == 480
PLAYER_START_DROP == 1500
\* Along x, in pixels.
PLAYER_SPEED == 6
KNOCKBACK_VX == 10
PLAYER_START_X == 100
PLAYER_WIDTH == 32
HUD_PERIOD == 5

(* Bounds of the exploration *)

\* The frame counter of the mid-run states: two ticks before frame 7200.
LateFrame == 60 * ENEMY_SPAWN_PERIOD - 2

MaxFrame == 52           \* ticks explored from the start of a run
LateTicks == 2           \* ticks explored from a mid-run state
MaxEntities == 3         \* entities (particles aside) in the array at once
MaxGameOverCalls == 2    \* calls of onGameOver before the status change commits

\* The frame counter of the states in which the player moves: between two spawns.
MoveFrame == 2 * ENEMY_SPAWN_PERIOD + 60
\* The frame counter of the states in which a collected weapon is fired: a frame
\* that every weapon rate divides, after the first powerup.
ArmedFrame == POWERUP_SPAWN_PERIOD + 100

MoveTicks == 3           \* ticks explored from a state in which the player moves
MoveFrames == 2          \* frames of a new run in which movement keys are explored
ArmedTicks == 26         \* ticks explored from a state with a collected weapon

\* A frame at which the first enemy is on screen and a player that has held a
\* direction key since the start of the run has reached an edge.
EdgeFrame == ENEMY_SPAWN_PERIOD + 2
EdgeTicks == 2           \* ticks explored from a state with the player at an edge

\* A frame at which the first powerup is on screen.
PickupFrame == POWERUP_SPAWN_PERIOD + 200
DroneFrame == 4 * ENEMY_SPAWN_PERIOD - 10

\* During a boss fight update reads the frame counter modulo 5 (HUD sync) and
\* modulo the weapon's rate (4, 10, 20 or 25) only, and the boss's attack timer
\* modulo 40 or 80: after LivePeriod ticks, a common multiple, both are what
\* they were.
LivePeriod == 400
LiveFrame == 20 * LivePeriod
LiveTimer == 40 * 80
PickupTicks == 3         \* ticks explored from a state with a powerup in reach
DroneTicks == 2          \* ticks explored from a state with a drone above the player

WeaponTypes == {"rifle", "spread", "laser", "flame"}
PowerupTypes == {"spread", "laser", "flame"}
OrdinaryTypes == {"runner", "drone", "jumper"}

WeaponRate(w) ==
  CASE w = "rifle" -> 10
    [] w = "spread" -> 20
    [] w = "laser" -> 25
    [] w = "flame" -> 4

----------------------------------------------------------------------------
(* Entities *)

\* The id of an entity: the prefix of the template string, the clock value
\* (Date.now()) it embeds and whether a Math.random() draw follows.  Two draws are
\* taken to differ, so the clock part of an id that carries one is left at 0; the
\* boss's id is the constant 'boss'.
EntityId(prefix, clock, random) ==
  [prefix |-> prefix, clock |-> clock, random |-> random]

IdPrefix(type, subtype) ==
  CASE type = "bullet" -> "b-"
    [] type = "powerup" -> "pw-"
    [] type = "enemy" /\ subtype = "boss" -> "boss"
    [] type = "enemy" -> "enemy-"
    [] subtype = "aimed" -> "bp-"
    [] subtype = "straight" -> "bp-spread-"
    [] OTHER -> "bomb-"

Entity(type, subtype, hp, maxHp) ==
  [id |-> EntityId(IdPrefix(type, subtype), 0, type = "bullet"),
   type |-> type, subtype |-> subtype, weaponType |-> "none",
   hp |-> hp, maxHp |-> maxHp, markedForDeletion |-> FALSE,
   bossPhase |-> 0, attackTimer |-> 0, penetration |-> 0, ttl |-> 0,
   dx |-> 0, pen0 |-> 0, hits |-> 0, flagHit |-> 0, hitsTaken |-> 0,
   vx |-> 0, vx0 |-> 0, step |-> 0, age |-> 0]

Bullet(w, ttl) ==
  [Entity("bullet", "none", 1, 1) EXCEPT
     !.ttl = ttl,
     !.penetration = IF w = "laser" THEN LASER_PENETRATION ELSE 1,
     !.pen0 = IF w = "laser" THEN LASER_PENETRATION ELSE 1]

Powerup(w) == [Entity("powerup", "none", 1, 1) EXCEPT !.weaponType = w]

\* spawnEnemy: vel.x is -2.
Enemy(t) == [Entity("enemy", t, IF t = "drone" THEN 1 ELSE 3, 3) EXCEPT !.vx = -2]

Boss == [Entity("enemy", "boss", BOSS_HP, BOSS_HP) EXCEPT !.dx = BOSS_ENTER_DISTANCE]

\* The projectiles: the boss's aimed one (lines 321-333), its straight one with
\* velocity (-8, 0) (lines 336-346) and the drone's bomb (lines 354-363).
BossProjectile == Entity("boss_projectile", "aimed", 1, 1)
BossSpread == [Entity("boss_projectile", "straight", 1, 1) EXCEPT !.vx = -8]
Bomb == Entity("boss_projectile", "bomb", 1, 1)

IsBoss(e) == e.type = "enemy" /\ e.subtype = "boss"

\* The entity e as pushed when Date.now() reads now.
Made(e, now) ==
  IF IsBoss(e) \/ e.id.random THEN e ELSE [e EXCEPT !.id.clock = now]

\* Two entities carry the same id string.
SameId(a, b) == a.id = b.id /\ ~a.id.random

Idx(s) == 1..Len(s)
BossCount(ents) == Cardinality({i \in Idx(ents) : IsBoss(ents[i])})

RECURSIVE SelectIdx(_, _, _)
SelectIdx(s, keep, i) ==
  IF i > Len(s) THEN <<>>
  ELSE IF i \in keep THEN <<s[i]>> \o SelectIdx(s, keep, i + 1)
  ELSE SelectIdx(s, keep, i + 1)

\* held: fire, the rifle and the direction right have been held in every tick
\* since initLevel, and the bullets created so far.  call: whether the canvas and
\* its 2D context were available to the last call of update.  present: the entities that were
\* in the array before the update loop or that it pushed.  removed: the entities
\* the cleanup removed.
NoLog == [frame |-> 0, flagAtSpawn |-> FALSE, spawned |-> {}, killsBefore |-> 0,
          gameOver |-> FALSE, overScore |-> 0, tick |-> FALSE, shots |-> <<>>,
          held |-> [ok |-> TRUE, shots |-> 0], present |-> 0, removed |-> 0,
          kills |-> 0, collected |-> 0, call |-> [canvas |-> TRUE, ctx |-> TRUE],
          volley |-> [boss |-> FALSE, phase0 |-> 0, phase |-> 0, timer |-> 0,
                      shots |-> <<>>],
          hurt |-> [hp0 |-> 0, right |-> FALSE, srcs |-> <<>>], pickups |-> <<>>,
          land |-> [checked |-> FALSE, x |-> [known |-> TRUE, val |-> 0], feet |-> 0,
                    vy |-> 0, over |-> "none"],
          hud |-> [emitted |-> FALSE, hp |-> 0, score |-> 0, weapon |-> "none",
                   bossHp |-> 0, maxBossHp |-> 0]]

----------------------------------------------------------------------------
(* The level and the player's motion (initLevel; update, lines 206-239) *)

\* The four platforms initLevel lays out from the canvas size.
PlatformsFor(cv) ==
  << [id |-> "floor", x |-> 0, y |-> 10 * (cv.height - 40),
      width |-> cv.width, height |-> 400],
     [id |-> "p1", x |-> 300, y |-> 10 * (cv.height - 180), width |-> 200, height |-> 200],
     [id |-> "p2", x |-> 600, y |-> 10 * (cv.height - 300), width |-> 200, height |-> 200],
     [id |-> "p3", x |-> 100, y |-> 10 * (cv.height - 350), width |-> 150, height |-> 200] >>

\* vel.x as base * 0.8^k; pos.x as a known value or unknown.
Vx(base) == [base |-> base, k |-> 0]
KnownX(v) == [known |-> TRUE, val |-> v]
UnknownX == [known |-> FALSE, val |-> 0]

\* A friction that leaves vel.x as it is.
Friction_None(v) == v

\* vel.x *= FRICTION
Friction(v) == IF v.base = 0 THEN v ELSE [v EXCEPT !.k = v.k + 1]

\* An initLevel that keeps the player's velocity.
StartPlayer_KeepsVelocity(pl, cv) ==
  [pl EXCEPT !.x = [known |-> TRUE, val |-> PLAYER_START_X],
             !.y = 10 * cv.height - PLAYER_START_DROP,
             !.hp = PLAYER_HP, !.weaponType = "rifle"]

\* The player as initLevel leaves it: the other fields of playerRef are kept.
StartPlayer(pl, cv) ==
  [pl EXCEPT !.x = KnownX(PLAYER_START_X),
             !.y = 10 * cv.height - PLAYER_START_DROP,
             !.vx = Vx(0), !.vy = 0,
             !.hp = PLAYER_HP, !.weaponType = "rifle"]

\* The player before the first initLevel (the initial value of playerRef).
NewPlayer ==
  [hp |-> PLAYER_HP, weaponType |-> "rifle", x |-> KnownX(PLAYER_START_X), y |-> 3000,
   vx |-> Vx(0), vy |-> 0, isGrounded |-> FALSE, direction |-> 1]

\* Lines 207-215: left and right set vel.x and the direction, else friction.
Horizontal(pl, inp) ==
  IF inp.left THEN [pl EXCEPT !.vx = Vx(-PLAYER_SPEED), !.direction = -1]
  ELSE IF inp.right THEN [pl EXCEPT !.vx = Vx(PLAYER_SPEED), !.direction = 1]
  ELSE [pl EXCEPT !.vx = Friction(pl.vx)]

\* Bounds that stop the player at the left edge only.
ClampX_LeftOnly(v, cv) == IF v < 0 THEN 0 ELSE v

\* Lines 221-222: pos.x is kept within the canvas.
ClampX(v, cv) ==
  LET lo == IF v < 0 THEN 0 ELSE v
  IN IF lo + PLAYER_WIDTH > cv.width THEN cv.width - PLAYER_WIDTH ELSE lo

\* vel.x is a whole number of pixels: at rest, or as a key or a contact set it.
Exact(v) == v.base = 0 \/ v.k = 0

\* Where the move of a player whose pos.x or vel.x is not known exactly may take
\* it: within the canvas, or beyond the edge it moves towards.
EdgeChoices(pl, explored) ==
  IF pl.x.known /\ Exact(pl.vx) THEN {"none"}
  ELSE {"none"} \cup (IF explored /\ pl.vx.base < 0 THEN {"left"} ELSE {})
                \cup (IF explored /\ pl.vx.base > 0 THEN {"right"} ELSE {})

\* pos.x after line 217, before the bounds are applied.
RawX(pl, cv, edge) ==
  IF pl.x.known /\ Exact(pl.vx) THEN KnownX(pl.x.val + pl.vx.base)
  ELSE CASE edge = "left" -> KnownX(-1)
         [] edge = "right" -> KnownX(cv.width - PLAYER_WIDTH + 1)
         [] OTHER -> UnknownX

\* Lines 216-223: gravity, the move, the bounds and the fall death.
Move(pl, cv, edge) ==
  LET vy == pl.vy + GRAVITY
      y == pl.y + vy
      raw == RawX(pl, cv, edge)
  IN [pl EXCEPT
        !.vy = vy,
        !.y = y,
        !.x = IF raw.known THEN KnownX(ClampX(raw.val, cv)) ELSE UnknownX,
        !.hp = IF y > 10 * cv.height THEN 0 ELSE pl.hp]

\* A platform test whose band ends 20 px below the top of the platform.
FeetWithin_TwentyBelowTop(pl, p) ==
  /\ pl.y + PLAYER_HEIGHT > p.y
  /\ pl.y + PLAYER_HEIGHT < p.y + 200
  /\ pl.vy >= 0

\* The vertical part of the platform test (lines 231-233).
FeetWithin(pl, p) ==
  /\ pl.y + PLAYER_HEIGHT > p.y
  /\ pl.y + PLAYER_HEIGHT < p.y + p.height + 200
  /\ pl.vy >= 0

\* The horizontal part (lines 229-230).  The floor spans the canvas, within which
\* pos.x is kept; over names the raised platform a player of unknown pos.x is over.
OverX(pl, p, over) ==
  IF pl.x.known
  THEN pl.x.val < p.x + p.width /\ pl.x.val + PLAYER_WIDTH > p.x
  ELSE p.id = "floor" \/ p.id = over

\* The raised platforms a player of unknown pos.x may be over, as far as it matters.
OverChoices(pl, plats) ==
  {"none"} \cup (IF pl.x.known THEN {}
                 ELSE {plats[i].id : i \in {k \in 2..Len(plats) : FeetWithin(pl, plats[k])}})

\* Lines 234-238: landing.
Land(pl, p) == [pl EXCEPT !.isGrounded = TRUE, !.vy = 0, !.y = p.y - PLAYER_HEIGHT]

\* Lines 226-239: the loop over the platforms, in array order.
RECURSIVE PlatformLoop(_, _, _, _)
PlatformLoop(pl, plats, i, over) ==
  IF i > Len(plats) THEN pl
  ELSE PlatformLoop(IF OverX(pl, plats[i], over) /\ FeetWithin(pl, plats[i])
                    THEN Land(pl, plats[i]) ELSE pl,
                    plats, i + 1, over)

\* The player after lines 226-239, given the player after lines 207-223.
Platforms(pl, plats, over) ==
  PlatformLoop([pl EXCEPT !.isGrounded = FALSE], plats, 1, over)

----------------------------------------------------------------------------
(* One tick, step by step (update, GameCanvas.tsx lines 196-595) *)

WeaponSpeed(w) ==
  CASE w = "rifle" -> 12
    [] w = "spread" -> 10
    [] w = "laser" -> 20
    [] w = "flame" -> 7

\* The flame bullet's vel.y, (Math.random() - 0.5) * 2: upwards, level or downwards.
FlameDrift == {-1, 0, 1}

\* A weapon that fires in every tick in which fire is held.
Shots_EveryTick(f, fire, w, dir, drift) ==
  IF fire
  THEN << [vx |-> dir * WeaponSpeed(w), vy |-> 0, ttl |-> 0,
           penetration |-> IF w = "laser" THEN LASER_PENETRATION ELSE 1] >>
  ELSE <<>>

\* The calls of spawnBullet in one tick: velocity, ttl and penetration of each
\* (spread: speed * 0.9 is 9).
Shots(f, fire, w, dir, drift) ==
  LET shot(vx, vy, ttl) ==
        [vx |-> vx, vy |-> vy, ttl |-> ttl,
         penetration |-> IF w = "laser" THEN LASER_PENETRATION ELSE 1]
      speed == WeaponSpeed(w)
  IN IF fire /\ f % WeaponRate(w) = 0
     THEN CASE w = "spread" -> << shot(dir * speed, 0, 0),
                                 shot(dir * ((speed * 9) \div 10), -2, 0),
                                 shot(dir * ((speed * 9) \div 10), 2, 0) >>
            [] w = "flame" -> << shot(dir * speed, drift, FLAME_TTL) >>
            [] OTHER -> << shot(dir * speed, 0, 0) >>
     ELSE <<>>

\* Shooting: while fire is held, the weapon's rate gates bullet creation.
Shoot(ents, f, fire, w) ==
  LET shots == Shots(f, fire, w, 1, 0)
  IN ents \o [i \in 1..Len(shots) |-> Bullet(w, shots[i].ttl)]

\* A spawn rule that looks at the score alone.
BossSpawnDue_ScoreOnly(ba, sc, ents) == sc > BOSS_SPAWN_SCORE

\* The boss is spawned when no boss fight is on and the score is past the threshold.
BossSpawnDue(ba, sc, ents) ==
  ~ba /\ sc > BOSS_SPAWN_SCORE /\ BossCount(ents) = 0

\* spawnEnemy without its early return.
EnemySpawnDue_NoBossGuard(ba, f) == f % ENEMY_SPAWN_PERIOD = 0

\* spawnEnemy is called every 120 frames and returns at once during a boss fight.
EnemySpawnDue(ba, f) == f % ENEMY_SPAWN_PERIOD = 0 /\ ~ba

PowerupSpawnDue(ba, f) == f % POWERUP_SPAWN_PERIOD = 0 /\ ~ba

\* A boss branch that assigns the phase from hp alone: below half it toggles.
BossAI_PhaseToggles(e) ==
  IF e.bossPhase = 0
  THEN LET d == IF e.dx - 1 > 0 THEN e.dx - 1 ELSE 0
       IN [e EXCEPT !.dx = d, !.bossPhase = IF d <= 0 THEN 1 ELSE 0]
  ELSE [e EXCEPT
          !.bossPhase = IF 2 * e.hp < e.maxHp
                        THEN (IF e.bossPhase = 1 THEN 2 ELSE 1)
                        ELSE e.bossPhase,
          !.attackTimer = e.attackTimer + 1]

\* A boss branch that switches at half hp already (hp <= maxHp/2).
BossAI_SwitchAtHalf(e) ==
  IF e.bossPhase = 0
  THEN LET d == IF e.dx - 1 > 0 THEN e.dx - 1 ELSE 0
       IN [e EXCEPT !.dx = d, !.bossPhase = IF d <= 0 THEN 1 ELSE 0]
  ELSE [e EXCEPT
          !.bossPhase = IF 2 * e.hp <= e.maxHp /\ e.bossPhase = 1 THEN 2 ELSE e.bossPhase,
          !.attackTimer = e.attackTimer + 1]

\* The boss's branch of the update loop: enter the screen, then switch phase and attack.
BossAI(e) ==
  IF e.bossPhase = 0
  THEN LET d == IF e.dx - 1 > 0 THEN e.dx - 1 ELSE 0
       IN [e EXCEPT !.dx = d, !.bossPhase = IF d <= 0 THEN 1 ELSE 0]
  ELSE [e EXCEPT
          !.bossPhase = IF 2 * e.hp < e.maxHp /\ e.bossPhase = 1 THEN 2 ELSE e.bossPhase,
          !.attackTimer = e.attackTimer + 1]

\* A boss that attacks every 40 ticks in phase 1 as well.
BossShots_EveryForty(old, new) ==
  IF old.bossPhase = 0 THEN 0
  ELSE IF new.attackTimer % 40 = 0
       THEN (IF new.bossPhase = 2 THEN 2 ELSE 1)
       ELSE 0

\* The projectiles the boss pushes in this tick, given its record after BossAI.
BossShots(old, new) ==
  IF old.bossPhase = 0 THEN 0
  ELSE LET attackRate == IF new.bossPhase = 2 THEN 40 ELSE 80
       IN IF new.attackTimer % attackRate = 0
          THEN (IF new.bossPhase = 2 THEN 2 ELSE 1)
          ELSE 0

\* A countdown that flags a bullet only once its ttl is below 0.
TtlStep_FlagsBelowZero(e) ==
  IF e.ttl # 0
  THEN [e EXCEPT !.ttl = e.ttl - 1, !.age = e.age + 1,
                 !.markedForDeletion = (e.ttl - 1 < 0)]
  ELSE e

\* A bullet's or projectile's ttl countdown (flame bullets only carry one); age
\* counts the passes in which it ran.
TtlStep(e) ==
  IF e.ttl # 0
  THEN [e EXCEPT !.ttl = e.ttl - 1, !.age = e.age + 1,
                 !.markedForDeletion = (e.ttl - 1 <= 0)]
  ELSE e

\* The horizontal move of an ordinary enemy in one pass (lines 350-384): its
\* branch adds vel.x to pos.x; a jumper that jumps then sets vel.x to hop (4 or
\* -4, towards the player); "Apply Position" adds vel.x again for all but drones.
\* vx0 is vel.x at the start of the pass and step what the pass added to pos.x.
MoveEnemy(e, hop) ==
  LET vx == IF e.subtype = "jumper" /\ hop # 0 THEN hop ELSE e.vx
  IN [e EXCEPT !.vx0 = e.vx, !.vx = vx,
               !.step = IF e.subtype = "drone" THEN e.vx ELSE e.vx + vx]

\* One entity's pass through the update loop; off: it has left the screen.
UpdateEntity(e, off, hop) ==
  IF e.markedForDeletion THEN e
  ELSE CASE e.type = "powerup" -> [e EXCEPT !.markedForDeletion = off]
         [] IsBoss(e) -> [BossAI(e) EXCEPT !.markedForDeletion = off]
         [] e.type = "enemy" -> [MoveEnemy(e, hop) EXCEPT !.markedForDeletion = off]
         [] OTHER -> LET t == TtlStep(e)
                     IN [t EXCEPT !.markedForDeletion = t.markedForDeletion \/ off]

\* The highest, the entry and the lowest pos.y of the boss: spawnBoss puts it at
\* canvas.height - 300 and line 312 moves it 50 px up and down around that.
BossYs(cv) == {cv.height - 350, cv.height - 300, cv.height - 250}

\* The position rules (lines 404-405): below the screen for any enemy, left of it
\* for all but the boss.
BelowScreen(y, cv) == y > cv.height + 100

\* Position rules that apply to the boss as to any other enemy.
OffCandidates_BossToo(ents, cv) == {i \in Idx(ents) : ~ents[i].markedForDeletion}

\* The leftmost and the rightmost pos.x of a bomb: it is pushed 16 px right of a
\* drone that is less than 50 px from the player's pos.x (lines 354-358), which
\* lines 221-222 keep within the canvas, and its vel.x is 0.
BombXs(cv) == {16 - 49, cv.width - PLAYER_WIDTH + 49 + 16}

\* The position rule of bullets and projectiles (line 415): pos.x only.
BesideScreen(x, cv) == x < -50 \/ x > cv.width + 50

\* Entities that a position rule can flag: the boss only if it is below the
\* screen, a bomb only if it is beside it.
OffCandidates(ents, cv) ==
  {i \in Idx(ents) :
     /\ ~ents[i].markedForDeletion
     /\ IsBoss(ents[i]) => \E y \in BossYs(cv) : BelowScreen(y, cv)
     /\ ents[i].subtype = "bomb" => \E x \in BombXs(cv) : BesideScreen(x, cv)}

\* The jumps of this tick: a jumper on the ground jumps with probability 0.02
\* (line 369), to the side the player is on.
JumperIdx(ents) ==
  {i \in Idx(ents) : ~ents[i].markedForDeletion /\ ents[i].type = "enemy"
                     /\ ents[i].subtype = "jumper"}

HopChoices(ents, explored) ==
  {h \in [Idx(ents) -> {-4, 0, 4}] :
     \A i \in Idx(ents) : h[i] # 0 => explored /\ i \in JumperIdx(ents)}

DroneIdx(ents) ==
  {i \in Idx(ents) : ~ents[i].markedForDeletion /\ ents[i].type = "enemy"
                     /\ ents[i].subtype = "drone"}

\* What the boss pushes when it attacks: the aimed projectile and, in phase 2,
\* the straight one.
BossVolley(n) ==
  IF n <= 0 THEN <<>> ELSE IF n = 1 THEN <<BossProjectile>>
  ELSE <<BossProjectile, BossSpread>>

\* What the update loop pushes, in the order of the array.
RECURSIVE Pushed(_, _, _, _)
Pushed(old, new, bombs, i) ==
  IF i > Len(old) THEN <<>>
  ELSE (IF IsBoss(old[i]) /\ ~old[i].markedForDeletion
        THEN BossVolley(BossShots(old[i], new[i]))
        ELSE IF i \in bombs THEN <<Bomb>> ELSE <<>>) \o Pushed(old, new, bombs, i + 1)

RECURSIVE SumShots(_, _, _)
SumShots(old, new, i) ==
  IF i > Len(old) THEN 0
  ELSE (IF IsBoss(old[i]) /\ ~old[i].markedForDeletion
        THEN BossShots(old[i], new[i]) ELSE 0) + SumShots(old, new, i + 1)

\* An update loop that removes what it flags at once.
UpdateLoop_RemovesAtOnce(ents, off, bombs, hops) ==
  SelectIdx(ents, Idx(ents) \ off, 1)

\* The update loop: forEach visits the entities present when it starts; what it
\* pushes (boss projectiles, drone bombs) is appended and not visited.
UpdateLoop(ents, off, bombs, hops) ==
  LET new == [i \in Idx(ents) |-> UpdateEntity(ents[i], i \in off, hops[i])]
  IN new \o Pushed(ents, new, bombs, 1)

\* The array after the update loop, the entities it pushed (those behind the n
\* it started with) carrying the clock value now.
Stamped(ents, n, now) ==
  [i \in Idx(ents) |-> IF i > n THEN Made(ents[i], now) ELSE ents[i]]

----------------------------------------------------------------------------
(* The collision loop (lines 427-490).  c is the state the loop mutates:    *)
(* [ents, hp, weaponType, vx, vy, score, bossActive, bossKills,            *)
(* collected], and kb, the side the knockback throws the player to.         *)

\* A penetration rule that compares with 0 instead of 1.
BulletSurvivesHit_AboveZero(b) == b.penetration # 0 /\ b.penetration > 0

\* A bullet that hits stays alive while its penetration count is above 1.
BulletSurvivesHit(b) == b.penetration # 0 /\ b.penetration > 1

\* A kill rule that destroys a target left with 1 hp.
TargetDestroyed_AtOne(t) == t.hp <= 1

\* A kill rule that spares a target left with exactly 0 hp.
TargetDestroyed_BelowZero(t) == t.hp < 0

\* A target is destroyed by the hit that leaves it no hp.
TargetDestroyed(t) == t.hp <= 0

\* A kill rule that leaves the boss-active flag set when the boss is destroyed.
Hit_KeepsBossFlag(c, i, j) ==
  LET b == c.ents[i]
      t == [c.ents[j] EXCEPT !.hp = c.ents[j].hp - 1,
                             !.hitsTaken = c.ents[j].hitsTaken + 1]
      b2 == IF BulletSurvivesHit(b)
            THEN [b EXCEPT !.penetration = b.penetration - 1, !.hits = b.hits + 1]
            ELSE [b EXCEPT !.markedForDeletion = TRUE, !.hits = b.hits + 1,
                           !.flagHit = IF b.flagHit = 0 THEN b.hits + 1 ELSE b.flagHit]
      dead == TargetDestroyed(t)
      t2 == [t EXCEPT !.markedForDeletion = dead]
  IN [c EXCEPT
        !.ents = [c.ents EXCEPT ![i] = b2, ![j] = t2],
        !.score = IF dead
                  THEN c.score + (IF IsBoss(t) THEN BOSS_SCORE ELSE ENEMY_SCORE)
                  ELSE c.score,
        !.bossActive = c.bossActive,
        !.bossKills = IF dead /\ IsBoss(t) THEN c.bossKills + 1 ELSE c.bossKills]

\* A kill rule that scores a destroyed boss like an ordinary enemy.
Hit_BossScoresAsEnemy(c, i, j) ==
  LET b == c.ents[i]
      t == [c.ents[j] EXCEPT !.hp = c.ents[j].hp - 1,
                             !.hitsTaken = c.ents[j].hitsTaken + 1]
      b2 == IF BulletSurvivesHit(b)
            THEN [b EXCEPT !.penetration = b.penetration - 1, !.hits = b.hits + 1]
            ELSE [b EXCEPT !.markedForDeletion = TRUE, !.hits = b.hits + 1,
                           !.flagHit = IF b.flagHit = 0 THEN b.hits + 1 ELSE b.flagHit]
      dead == TargetDestroyed(t)
      t2 == [t EXCEPT !.markedForDeletion = dead]
  IN [c EXCEPT
        !.ents = [c.ents EXCEPT ![i] = b2, ![j] = t2],
        !.score = IF dead
                  THEN c.score + ENEMY_SCORE
                  ELSE c.score,
        !.bossActive = IF dead /\ IsBoss(t) THEN FALSE ELSE c.bossActive,
        !.bossKills = IF dead /\ IsBoss(t) THEN c.bossKills + 1 ELSE c.bossKills]

\* Bullet i hits target j: 1 damage, the penetration rule, then the kill rule.
Hit(c, i, j) ==
  LET b == c.ents[i]
      t == [c.ents[j] EXCEPT !.hp = c.ents[j].hp - 1,
                             !.hitsTaken = c.ents[j].hitsTaken + 1]
      b2 == IF BulletSurvivesHit(b)
            THEN [b EXCEPT !.penetration = b.penetration - 1, !.hits = b.hits + 1]
            ELSE [b EXCEPT !.markedForDeletion = TRUE, !.hits = b.hits + 1,
                           !.flagHit = IF b.flagHit = 0 THEN b.hits + 1 ELSE b.flagHit]
      dead == TargetDestroyed(t)
      t2 == [t EXCEPT !.markedForDeletion = dead]
  IN [c EXCEPT
        !.ents = [c.ents EXCEPT ![i] = b2, ![j] = t2],
        !.score = IF dead
                  THEN c.score + (IF IsBoss(t) THEN BOSS_SCORE ELSE ENEMY_SCORE)
                  ELSE c.score,
        !.bossActive = IF dead /\ IsBoss(t) THEN FALSE ELSE c.bossActive,
        !.bossKills = IF dead /\ IsBoss(t) THEN c.bossKills + 1 ELSE c.bossKills]

\* The inner loop of a bullet: every unflagged enemy it overlaps, in array order.
RECURSIVE BulletLoop(_, _, _, _)
BulletLoop(c, i, j, rel) ==
  IF j > Len(c.ents) THEN c
  ELSE LET t == c.ents[j]
       IN IF t.type = "enemy" /\ ~t.markedForDeletion /\ <<i, j>> \in rel
          THEN BulletLoop(Hit(c, i, j), i, j + 1, rel)
          ELSE BulletLoop(c, i, j + 1, rel)

\* A pickup that leaves the powerup in the array.
Collect_KeepsPowerup(c, i) ==
  [c EXCEPT !.weaponType = c.ents[i].weaponType,
            !.score = c.score + POWERUP_SCORE,
            !.collected = c.collected + 1,
            !.pickups = Append(c.pickups, i)]

\* The player collects a powerup.
Collect(c, i) ==
  [c EXCEPT !.weaponType = c.ents[i].weaponType,
            !.score = c.score + POWERUP_SCORE,
            !.collected = c.collected + 1,
            !.pickups = Append(c.pickups, i),
            !.ents = [c.ents EXCEPT ![i] = [@ EXCEPT !.markedForDeletion = TRUE]]]

\* A contact that flags the enemy as it flags a projectile.
Contact_FlagsEnemy(c, i) ==
  [c EXCEPT !.hp = c.hp - CONTACT_DAMAGE,
            !.vx = Vx(c.kb * KNOCKBACK_VX),
            !.vy = KNOCKBACK_VY,
            !.hurts = Append(c.hurts, i),
            !.ents = [c.ents EXCEPT ![i] = [@ EXCEPT !.markedForDeletion = TRUE]]]

\* An enemy or a projectile touches the player (lines 478-489).  kb is -1 if
\* the entity's pos.x is greater than the player's, else 1.
Contact(c, i) ==
  [c EXCEPT !.hp = c.hp - CONTACT_DAMAGE,
            !.hurts = Append(c.hurts, i),
            !.vx = Vx(c.kb * KNOCKBACK_VX),
            !.vy = KNOCKBACK_VY,
            !.ents = [c.ents EXCEPT ![i] =
                        [@ EXCEPT !.markedForDeletion =
                                    IF @ = FALSE THEN c.ents[i].type = "boss_projectile"
                                    ELSE @]]]

\* The outer loop over the n entities present when it starts; touch: the entities
\* that overlap the player; rel: the (bullet, enemy) pairs that overlap.
RECURSIVE CollisionLoop(_, _, _, _, _)
CollisionLoop(c, i, n, touch, rel) ==
  IF i > n THEN c
  ELSE LET e == c.ents[i]
           c2 == IF e.markedForDeletion THEN c
                 ELSE CASE e.type = "powerup" ->
                             IF i \in touch THEN Collect(c, i) ELSE c
                        [] e.type = "bullet" -> BulletLoop(c, i, 1, rel)
                        [] e.type \in {"enemy", "boss_projectile"} ->
                             IF i \in touch THEN Contact(c, i) ELSE c
                        [] OTHER -> c
       IN CollisionLoop(c2, i + 1, n, touch, rel)

\* A powerup is 24 px high and its pos.y is 200 + 50 * sin(...) (line 300), at
\* any canvas size: the vertical part of isColliding can hold only for a player
\* whose pos.y is below 274 and whose bottom edge is below 150.
PowerupInReach(pl) == pl.y < 2740 /\ pl.y + PLAYER_HEIGHT > 1500

\* The entities that may overlap the player pl.
TouchCandidates(ents, pl) ==
  {i \in Idx(ents) :
     /\ ~ents[i].markedForDeletion
     /\ \/ ents[i].type \in {"enemy", "boss_projectile"}
        \/ ents[i].type = "powerup" /\ PowerupInReach(pl)}

HitPairs(ents) ==
  {p \in Idx(ents) \X Idx(ents) :
     /\ ents[p[1]].type = "bullet" /\ ~ents[p[1]].markedForDeletion
     /\ ents[p[2]].type = "enemy" /\ ~ents[p[2]].markedForDeletion}

\* A filter pass that lets flagged bullets through.
Cleanup_KeepsBullets(ents) ==
  SelectIdx(ents, {i \in Idx(ents) : ~ents[i].markedForDeletion
                                      \/ ents[i].type = "bullet"}, 1)

\* Cleanup (line 493): the filter pass.
Cleanup(ents) == SelectIdx(ents, {i \in Idx(ents) : ~ents[i].markedForDeletion}, 1)

Flagged(ents) == {ents[i] : i \in {k \in Idx(ents) : ents[k].markedForDeletion}}

IsBullet(e) == e.type = "bullet"

WithinBounds(ents) == Len(ents) <= MaxEntities

\* The frames the exploration covers: the start of a run, and five windows later
\* in a run.
FrameExplored(f) ==
  \/ f < MaxFrame
  \/ LateFrame <= f /\ f < LateFrame + LateTicks
  \/ MoveFrame <= f /\ f < MoveFrame + MoveTicks
  \/ ArmedFrame <= f /\ f < ArmedFrame + ArmedTicks
  \/ PickupFrame <= f /\ f < PickupFrame + PickupTicks
  \/ EdgeFrame <= f /\ f < EdgeFrame + EdgeTicks
  \/ DroneFrame <= f /\ f < DroneFrame + DroneTicks
  \/ LiveFrame <= f /\ f < LiveFrame + LivePeriod

\* The frame counter after frameCount++ (line 203).  In the window that starts at
\* LiveFrame, a boss fight, it is kept modulo LivePeriod, and with it the boss's
\* attack timer.
Following(n) == IF n + 1 = LiveFrame + LivePeriod THEN LiveFrame ELSE n + 1

Rewound(ents) ==
  [i \in Idx(ents) |->
     IF IsBoss(ents[i])
     THEN [ents[i] EXCEPT !.attackTimer = ents[i].attackTimer - LivePeriod]
     ELSE ents[i]]

\* The entity array a tick that ends in frame f leaves.
Kept(ents, n, f) == IF f = n + 1 THEN ents ELSE Rewound(ents)

\* The frames in which overlaps of the player with an entity are explored: in
\* the window that starts at LiveFrame the player keeps clear of everything.
TouchesExplored(f) == ~(LiveFrame <= f /\ f < LiveFrame + LivePeriod)

\* The clock.  A clock value is named after the frame of the first tick that read
\* it.  Date.now() counts wall-clock milliseconds: it normally advances from
\* one frame to the next, and it reads the same value in two successive ticks
\* when the browser coarsens it (reduced timer precision, up to 100 ms) or the
\* system clock is set back in between.  The second case is explored in the
\* last tick of the drone window.
StallExplored(f) == f = DroneFrame + DroneTicks

ClockChoices(f) == {f} \cup (IF StallExplored(f) THEN {f - 1} ELSE {})

\* The frames in which the jumps of jumpers are explored.
JumpsExplored(f) == MoveFrame < f /\ f <= MoveFrame + MoveTicks

\* The frames in which movement key events are explored.
MoveKeysExplored(f) ==
  \/ f < MoveFrames
  \/ MoveFrame <= f /\ f <= MoveFrame + MoveTicks
  \/ EdgeFrame <= f /\ f <= EdgeFrame + EdgeTicks

\* The frames in which a player of unknown pos.x may reach an edge.
EdgesExplored(f) == EdgeFrame < f /\ f <= EdgeFrame + EdgeTicks

----------------------------------------------------------------------------
(* Actions *)

\* initLevel (lines 100-125): the run state of a new run, laid out from the canvas
\* as the calling handler leaves it.
InitLevel ==
  /\ player' = StartPlayer(player, canvas')
  /\ platforms' = PlatformsFor(canvas')
  /\ entities' = <<>>
  /\ score' = 0
  /\ frameCount' = 0
  /\ bossActive' = FALSE
  /\ purged' = {}
  /\ log' = NoLog
  /\ bossSpawns' = 0
  /\ bossKills' = 0

\* An ordinary enemy that left the collision loop with no hp.
Killed(e) == e.type = "enemy" /\ ~IsBoss(e) /\ e.markedForDeletion /\ e.hp <= 0

\* currentBossHp (lines 287 and 305): 0, overwritten with its hp by every boss
\* the update loop visits.
CurrentBossHp(ents) ==
  LET at == {i \in Idx(ents) : IsBoss(ents[i]) /\ ~ents[i].markedForDeletion}
  IN IF at = {} THEN 0
     ELSE ents[CHOOSE i \in at : \A j \in at : j <= i].hp

\* Sync HUD (lines 495-504): every fifth frame setHudState is called with the
\* player's hp and weapon, the score and currentBossHp.
HudSync(f, hp, sc, w, bossHp) ==
  IF f % HUD_PERIOD = 0
  THEN [emitted |-> TRUE, hp |-> hp, score |-> sc, weapon |-> w,
        bossHp |-> bossHp, maxBossHp |-> BOSS_HP]
  ELSE NoLog.hud

\* What update leaves behind, given the player pl after the platform loop, the
\* state c at the end of its collision loop and h, what the tick did before.
TickResult(f, sb, se, sp, ba, c, pl, h) ==
  LET over == c.hp <= 0
  IN /\ frameCount' = f
     /\ entities' = Kept(Cleanup(c.ents), frameCount, f)
     /\ purged' = Flagged(c.ents)
     /\ player' = [pl EXCEPT !.hp = c.hp, !.weaponType = c.weaponType,
                             !.vx = c.vx, !.vy = c.vy]
     /\ score' = c.score
     /\ bossActive' = c.bossActive
     /\ bossKills' = c.bossKills
     /\ bossSpawns' = IF sb THEN bossSpawns + 1 ELSE bossSpawns
     /\ log' = [frame |-> f, flagAtSpawn |-> ba,
                spawned |-> (IF sb THEN {"boss"} ELSE {})
                            \cup (IF se THEN {"enemy"} ELSE {})
                            \cup (IF sp THEN {"powerup"} ELSE {}),
                killsBefore |-> bossKills,
                gameOver |-> over,
                overScore |-> IF over THEN c.score ELSE 0,
                tick |-> TRUE,
                shots |-> h.shots,
                held |-> IF log.held.ok /\ input.fire /\ player.weaponType = "rifle"
                            /\ pl.direction = 1
                         THEN [ok |-> TRUE, shots |-> log.held.shots + Len(h.shots)]
                         ELSE [ok |-> FALSE, shots |-> 0],
                present |-> h.present,
                removed |-> Len(c.ents) - Len(Cleanup(c.ents)),
                kills |-> Cardinality({i \in Idx(c.ents) : Killed(c.ents[i])}),
                collected |-> c.collected,
                call |-> h.call,
                land |-> h.land,
                pickups |-> [k \in Idx(c.pickups) |-> c.ents[c.pickups[k]]],
                hurt |-> [hp0 |-> pl.hp, right |-> (c.kb = -1),
                          srcs |-> [k \in Idx(c.hurts) |-> c.ents[c.hurts[k]]]],
                volley |-> h.volley,
                hud |-> HudSync(f, c.hp, c.score, c.weaponType, h.bossHp)]
     /\ pendingOver' = IF over THEN [queued |-> TRUE, score |-> c.score]
                       ELSE pendingOver
     /\ gameOverCalls' = IF over THEN gameOverCalls + 1 ELSE gameOverCalls

\* The entities a contact of which throws the player back.
Hurts(ents, touch) == {i \in touch : ents[i].type \in {"enemy", "boss_projectile"}}

\* What the boss did in the update loop that took the array from old to new: its
\* phase before, its phase and attack timer after, and the projectiles it pushed.
Volley(old, new) ==
  LET at == {i \in Idx(old) : IsBoss(old[i]) /\ ~old[i].markedForDeletion}
  IN IF at = {} THEN NoLog.volley
     ELSE LET i == CHOOSE k \in at : TRUE
          IN [boss |-> TRUE, phase0 |-> old[i].bossPhase, phase |-> new[i].bossPhase,
              timer |-> new[i].attackTimer,
              shots |-> SelectIdx(new, {k \in Len(old) + 1 .. Len(new) :
                                          new[k].subtype # "bomb"}, 1)]

\* The tick body of update (lines 203-594), run with canvas cv and context cx.
TickBody(cv, cx) ==
  /\ FrameExplored(frameCount)
  /\ ~(pendingOver.queued /\ gameOverCalls >= MaxGameOverCalls)
  /\ \E f \in {Following(frameCount)} :
     \E edge \in EdgeChoices(Horizontal(player, input), EdgesExplored(f)) :
     \E p1 \in {Move(Horizontal(player, input), canvas, edge)} :
     \E over \in OverChoices(p1, platforms) :
     \E pl \in {Platforms(p1, platforms, over)} :
     \E drift \in (IF player.weaponType = "flame" /\ input.fire
                      /\ f % WeaponRate("flame") = 0
                   THEN FlameDrift ELSE {0}) :
     \E shots \in {Shots(f, input.fire, player.weaponType, pl.direction, drift)} :
     \E e1 \in {Shoot(entities, f, input.fire, player.weaponType)} :
     \E sb \in {BossSpawnDue(bossActive, score, e1)} :
     \E ba \in {bossActive \/ sb} :
     \E se \in {EnemySpawnDue(ba, f)}, sp \in {PowerupSpawnDue(ba, f)} :
     \E et \in (IF se THEN OrdinaryTypes ELSE {"runner"}),
        pt \in (IF sp THEN PowerupTypes ELSE {"spread"}) :
     \E now \in ClockChoices(f) :
     \E e4 \in {(IF sb THEN Append(e1, Boss) ELSE e1)
                 \o (IF se THEN <<Made(Enemy(et), now)>> ELSE <<>>)
                 \o (IF sp THEN <<Made(Powerup(pt), now)>> ELSE <<>>)} :
       /\ WithinBounds(e4)
       /\ \E off \in SUBSET OffCandidates(e4, canvas) :
          \E bombs \in SUBSET (DroneIdx(e4) \ off) :
          \E hops \in HopChoices(e4, JumpsExplored(f)) :
          \E u5 \in {UpdateLoop(e4, off, bombs, hops)} :
          \E e5 \in {Stamped(u5, Len(e4), now)} :
            /\ WithinBounds(e5)
            /\ \E touch \in SUBSET (IF TouchesExplored(f) THEN TouchCandidates(e5, pl)
                                      ELSE {}) :
               \E kb \in (IF Hurts(e5, touch) = {} THEN {1} ELSE {-1, 1}) :
               \E rel \in SUBSET HitPairs(e5) :
               \E c \in {CollisionLoop([ents |-> e5, hp |-> pl.hp,
                                         weaponType |-> pl.weaponType,
                                         vx |-> pl.vx, vy |-> pl.vy, kb |-> kb,
                                         score |-> score, bossActive |-> ba,
                                         bossKills |-> bossKills, collected |-> 0,
                                         hurts |-> <<>>, pickups |-> <<>>],
                                        1, Len(e5), touch, rel)} :
                 TickResult(f, sb, se, sp, ba, c, pl,
                            [call |-> [canvas |-> cv, ctx |-> cx],
                             volley |-> Volley(e4, u5),
                             bossHp |-> CurrentBossHp(e4),
                             land |-> [checked |-> TRUE, x |-> p1.x,
                                       feet |-> p1.y + PLAYER_HEIGHT, vy |-> p1.vy,
                                       over |-> over],
                             shots |-> shots,
                             present |-> Len(e4) + SumShots(e4, e5, 1)
                                           + Cardinality(bombs)])
  /\ UNCHANGED <<gameStatus, mission, isLoading, cleanupPending, rafPending, canvas,
                 platforms, input, impulses>>

\* An update that goes on when the 2D context is missing.
UpdateRuns_IgnoresContext(status, cv, cx) == status = "PLAYING" /\ cv

\* The three early returns of update (lines 197-201): the status its closure
\* holds, the canvas (cv) and its 2D context (cx).
UpdateRuns(status, cv, cx) == status = "PLAYING" /\ cv /\ cx

\* The gameStatus in the closure of the scheduled callback.  It was scheduled by a
\* render whose gameStatus was PLAYING: the committed one, or the one before a
\* commit whose effect cleanup has not run yet.
ClosureStatus == IF cleanupPending THEN "PLAYING" ELSE gameStatus

\* The frame callback: one call of update.  A call that returns early runs nothing
\* and schedules no further frame.
Update(cv, cx) ==
  /\ rafPending
  /\ IF UpdateRuns(ClosureStatus, cv, cx)
     THEN TickBody(cv, cx)
     ELSE /\ rafPending' = FALSE
          /\ log' = [log EXCEPT !.call = [canvas |-> cv, ctx |-> cx]]
          /\ UNCHANGED <<gameStatus, mission, isLoading, pendingOver, cleanupPending,
                         canvas, platforms, frameCount, bossActive, score, player,
                         input, entities, purged, gameOverCalls, bossSpawns,
                         bossKills, impulses>>

\* A frame with the canvas mounted and its context available.
Tick ==
  /\ rafPending
  /\ Update(TRUE, TRUE)

\* A frame in which canvasRef.current or getContext('2d') is null.
UpdateSkipped == \E cv, cx \in BOOLEAN : ~(cv /\ cx) /\ Update(cv, cx)

\* React commits the state updates handleGameOver queued (App.tsx lines 35-38).
\* The loop effect's cleanup, a passive effect, runs later.
CommitGameOver ==
  /\ pendingOver.queued
  /\ gameStatus' = "GAME_OVER"
  /\ pendingOver' = [queued |-> FALSE, score |-> 0]
  /\ cleanupPending' = TRUE
  /\ UNCHANGED <<mission, isLoading, rafPending, canvas, platforms, frameCount, bossActive, score, player,
                 input, entities, purged, log, gameOverCalls, bossSpawns, bossKills,
                 impulses>>

\* The loop effect's cleanup (line 623) cancels the scheduled frame.
EffectCleanup ==
  /\ cleanupPending
  /\ cleanupPending' = FALSE
  /\ rafPending' = FALSE
  /\ UNCHANGED <<gameStatus, mission, isLoading, pendingOver, canvas, platforms,
                 frameCount, bossActive,
                 score, player, input, entities, purged, log, gameOverCalls,
                 bossSpawns, bossKills, impulses>>

\* What the service's request comes back with: a rejection, or a response whose
\* text is empty, is not JSON, or is the object the response schema asks for.
MissionJson == "{codename, objective, intel}"
Responses ==
  {[ok |-> FALSE, text |-> ""]} \cup {[ok |-> TRUE, text |-> t] : t \in {"", "{", MissionJson}}

\* JSON.parse: a value, or a SyntaxError.
JsonParse(text) ==
  IF text = MissionJson THEN [threw |-> FALSE, value |-> "GENERATED"]
  ELSE [threw |-> TRUE, value |-> "null"]

FallbackMission == "OPERATION SILENT ECHO"

\* A service that lets the request's rejection through.
GenerateMissionBriefing_Rethrows(r) ==
  IF ~r.ok THEN [state |-> "rejected", value |-> "null"]
  ELSE IF r.text = "" \/ JsonParse(r.text).threw
       THEN [state |-> "fulfilled", value |-> FallbackMission]
       ELSE [state |-> "fulfilled", value |-> JsonParse(r.text).value]

\* generateMissionBriefing (geminiService.ts lines 6-38): the promise it returns.
\* Whatever is thrown inside its try block ends in the catch block's fallback.
GenerateMissionBriefing(r) ==
  LET threw == ~r.ok \/ r.text = "" \/ JsonParse(r.text).threw
  IN IF threw THEN [state |-> "fulfilled", value |-> FallbackMission]
     ELSE [state |-> "fulfilled", value |-> JsonParse(r.text).value]

\* startGame up to its await (App.tsx lines 12-16).
StartGame ==
  /\ gameStatus = "MENU"
  /\ gameStatus' = "BRIEFING"
  /\ isLoading' = TRUE
  /\ UNCHANGED <<mission, pendingOver, cleanupPending, rafPending, canvas, platforms,
                 frameCount, bossActive, score, player, input, entities, purged, log,
                 gameOverCalls, bossSpawns, bossKills, impulses>>

\* Accepting the briefing starts a run: the loop effect calls initLevel and
\* schedules the first frame.
StartGameSettles ==
  /\ isLoading
  /\ \E r \in Responses :
     \E promise \in {GenerateMissionBriefing(r)} :
       mission' = IF promise.state = "fulfilled" THEN promise.value
                  ELSE "ALPHA PROTOCOL"
  /\ isLoading' = FALSE
  /\ UNCHANGED <<gameStatus, pendingOver, cleanupPending, rafPending, canvas,
                 platforms, frameCount, bossActive, score, player, input, entities,
                 purged, log, gameOverCalls, bossSpawns, bossKills, impulses>>

\* The button is rendered once the briefing is loaded (App.tsx lines 76-112).
HandleBriefingAccept ==
  /\ gameStatus = "BRIEFING"
  /\ ~isLoading
  /\ gameStatus' = "PLAYING"
  /\ canvas' = canvas
  /\ InitLevel
  /\ rafPending' = TRUE
  /\ gameOverCalls' = 0
  /\ UNCHANGED <<mission, isLoading, pendingOver, cleanupPending, input, impulses>>

\* React commits the updates queued by a frame and runs the pending effect
\* cleanup before it handles the click.
ResetGame ==
  /\ gameStatus = "GAME_OVER"
  /\ ~cleanupPending
  /\ ~pendingOver.queued
  /\ gameStatus' = "MENU"
  /\ mission' = "null"
  /\ UNCHANGED <<isLoading, pendingOver, cleanupPending, rafPending, canvas, platforms,
                 frameCount, bossActive, score, player, input, entities, purged, log,
                 gameOverCalls, bossSpawns, bossKills, impulses>>

\* The sizes of the window that are explored.
CanvasSizes == {[width |-> 800, height |-> 600], [width |-> 1024, height |-> 768]}

\* A viewport resize sizes the canvas and resets the level, in any status.
HandleResize ==
  /\ \E size \in CanvasSizes : canvas' = size
  /\ InitLevel
  /\ UNCHANGED <<gameStatus, mission, isLoading, pendingOver, cleanupPending,
                 rafPending, input, gameOverCalls, impulses>>

\* A jump test without the latch.
JumpAllowed_NoLatch(inp, pl) == pl.isGrounded

\* The test of line 71.
JumpAllowed(inp, pl) == ~inp.jump /\ pl.isGrounded

\* handleKeyDown (lines 64-79), one code of each case of its switch.
KeyDown(code) ==
  /\ input' = CASE code = "ArrowLeft" -> [input EXCEPT !.left = TRUE]
                [] code = "ArrowRight" -> [input EXCEPT !.right = TRUE]
                [] code = "Space" -> [input EXCEPT !.jump = TRUE]
                [] code = "KeyJ" -> [input EXCEPT !.fire = TRUE]
  /\ IF code = "Space" /\ JumpAllowed(input, player)
     THEN /\ player' = [player EXCEPT !.vy = JUMP_FORCE, !.isGrounded = FALSE]
          /\ impulses' = impulses + 1
     ELSE UNCHANGED <<player, impulses>>
  /\ UNCHANGED <<gameStatus, mission, isLoading, pendingOver, cleanupPending,
                 rafPending, canvas, platforms, frameCount, bossActive, score,
                 entities, purged, log, gameOverCalls, bossSpawns, bossKills>>

\* handleKeyUp (lines 81-90).
KeyUp(code) ==
  /\ input' = CASE code = "ArrowLeft" -> [input EXCEPT !.left = FALSE]
                [] code = "ArrowRight" -> [input EXCEPT !.right = FALSE]
                [] code = "Space" -> [input EXCEPT !.jump = FALSE]
                [] code = "KeyJ" -> [input EXCEPT !.fire = FALSE]
  /\ impulses' = IF code = "Space" THEN 0 ELSE impulses
  /\ UNCHANGED <<gameStatus, mission, isLoading, pendingOver, cleanupPending,
                 rafPending, canvas, platforms, frameCount, bossActive, score, player,
                 entities, purged, log, gameOverCalls, bossSpawns, bossKills>>

\* The fire key, pressed and released in the frames of a new run; a mid-run state
\* has it held or not.
HandleKeyDown == frameCount < MaxFrame /\ ~input.fire /\ KeyDown("KeyJ")

HandleKeyUp == frameCount < MaxFrame /\ input.fire /\ KeyUp("KeyJ")

\* The movement keys, in the frames where they are explored, the fire key not
\* held.
MoveKeys == {"ArrowLeft", "ArrowRight", "Space"}

HandleMoveKeyDown ==
  /\ MoveKeysExplored(frameCount)
  /\ ~input.fire
  /\ \E code \in MoveKeys : KeyDown(code)

HandleMoveKeyUp ==
  /\ MoveKeysExplored(frameCount)
  /\ ~input.fire
  /\ \E code \in MoveKeys : KeyUp(code)

NoInput == [left |-> FALSE, right |-> FALSE, jump |-> FALSE, fire |-> FALSE]

\* The state once the component is mounted: the resize effect has sized the canvas
\* and run initLevel.
Mounted ==
  /\ gameStatus = "MENU"
  /\ mission = "null"
  /\ isLoading = FALSE
  /\ pendingOver = [queued |-> FALSE, score |-> 0]
  /\ cleanupPending = FALSE
  /\ rafPending = FALSE
  /\ canvas \in CanvasSizes
  /\ platforms = PlatformsFor(canvas)
  /\ frameCount = 0
  /\ bossActive = FALSE
  /\ score = 0
  /\ player = StartPlayer(NewPlayer, canvas)
  /\ input = NoInput
  /\ entities = <<>>
  /\ purged = {}
  /\ log = NoLog
  /\ gameOverCalls = 0
  /\ bossSpawns = 0
  /\ bossKills = 0
  /\ impulses = 0


----------------------------------------------------------------------------
(* Mid-run states.  A boss fight starts only once the score has passed     *)
(* 1500 (more than 1300 ticks into a run) and the boss has 150 hp, so the  *)
(* runs that reach one are thousands of ticks long.  MidRun is a set of    *)
(* states such runs pass through, all at the tick boundary after frame     *)
(* LateFrame, two ticks before a frame that every spawn period and every   *)
(* weapon rate divides:                                                    *)
(*   before the fight: score 1500 (15 ordinary kills), a runner with 1 hp  *)
(*     and a jumper with 3 hp on screen, the player unhurt;                *)
(*   mid fight: the boss spawned at frame 4530, stopped 270 ticks later,   *)
(*     has attacked for 2398 ticks and is at 75 of 150 hp, in phase 1,     *)
(*     the player unhurt;                                                  *)
(*   early in a fight: a boss spawned 40 ticks later than that one, at 100 *)
(*     hp, in phase 1, the player unhurt, with the rifle;                  *)
(*   end of fight: the first boss at 1 hp, in phase 2, the player at 10    *)
(*     hp;                                                                 *)
(*   entering: a boss spawned 269 ticks ago, unhurt, one step from where   *)
(*     it stops, the player unhurt.                                        *)
(* The player holds the rifle or, in a fight, the laser (a powerup         *)
(* collected earlier) and has one bullet of that weapon in flight; mid     *)
(* fight, a laser bullet is passing through the boss and has hit it 4      *)
(* times.                                                                  *)

MidRunBoss(hp, phase, timer) ==
  [Boss EXCEPT !.hp = hp, !.bossPhase = phase, !.dx = 0, !.attackTimer = timer,
               !.hitsTaken = BOSS_HP - hp]

MidRunCanvas == [width |-> 800, height |-> 600]

\* The player standing on the floor, at rest.
Standing(cv) ==
  [NewPlayer EXCEPT !.y = PlatformsFor(cv)[1].y - PLAYER_HEIGHT, !.isGrounded = TRUE]

\* The player of a mid-run state: one that has not moved, or (hurt) one that the
\* last contact threw back 100 ticks ago.
MidRunPlayer(hp, w) ==
  IF hp = PLAYER_HP
  THEN [Standing(MidRunCanvas) EXCEPT !.weaponType = w]
  ELSE [Standing(MidRunCanvas) EXCEPT !.weaponType = w, !.hp = hp, !.x = UnknownX,
                                      !.vx = [base |-> KNOCKBACK_VX, k |-> 100]]

InFlight(w, h) ==
  LET b == Bullet(w, 0)
  IN IF w = "laser" THEN [b EXCEPT !.penetration = b.pen0 - h, !.hits = h] ELSE b

\* An ordinary enemy that has been on screen for some ticks and has not jumped.
OnScreen(e) == MoveEnemy(e, 0)

MidRunScenes ==
  { [entities |-> <<[Made(OnScreen(Enemy("runner")), LateFrame - 238)
                       EXCEPT !.hp = 1, !.hitsTaken = 2],
                    Made(OnScreen(Enemy("jumper")), LateFrame - 118)>>,
     bossActive |-> FALSE, score |-> 1500, bossSpawns |-> 0, hp |-> PLAYER_HP,
     weapons |-> {"rifle"}, hits |-> 0],
    [entities |-> <<MidRunBoss(75, 1, 2398)>>,
     bossActive |-> TRUE, score |-> 1600, bossSpawns |-> 1, hp |-> PLAYER_HP,
     weapons |-> {"rifle", "laser"}, hits |-> 4],
    [entities |-> <<MidRunBoss(100, 1, 2358)>>,
     bossActive |-> TRUE, score |-> 1600, bossSpawns |-> 1, hp |-> PLAYER_HP,
     weapons |-> {"rifle"}, hits |-> 0],
    [entities |-> <<MidRunBoss(1, 2, 2398)>>,
     bossActive |-> TRUE, score |-> 1600, bossSpawns |-> 1, hp |-> CONTACT_DAMAGE,
     weapons |-> {"rifle", "laser"}, hits |-> 0],
    [entities |-> <<[Boss EXCEPT !.dx = 1]>>,
     bossActive |-> TRUE, score |-> 1600, bossSpawns |-> 1, hp |-> PLAYER_HP,
     weapons |-> {"rifle", "laser"}, hits |-> 0] }

\* What is common to the states a run passes through.
Running ==
  /\ gameStatus = "PLAYING"
  /\ mission = "GENERATED"
  /\ isLoading = FALSE
  /\ pendingOver = [queued |-> FALSE, score |-> 0]
  /\ cleanupPending = FALSE
  /\ rafPending = TRUE
  /\ canvas = MidRunCanvas
  /\ platforms = PlatformsFor(MidRunCanvas)
  /\ purged = {}
  /\ gameOverCalls = 0
  /\ bossKills = 0

MidRunLog(f, ba) ==
  [NoLog EXCEPT !.frame = f, !.flagAtSpawn = ba, !.tick = TRUE,
                !.held = [ok |-> FALSE, shots |-> 0]]

MidRun ==
  /\ Running
  /\ frameCount = LateFrame
  /\ input \in {[NoInput EXCEPT !.fire = b] : b \in BOOLEAN}
  /\ \E sc \in MidRunScenes :
     \E w \in sc.weapons :
       /\ player = MidRunPlayer(sc.hp, w)
       /\ entities = Append(sc.entities, InFlight(w, sc.hits))
       /\ bossActive = sc.bossActive
       /\ score = sc.score
       /\ bossSpawns = sc.bossSpawns
       /\ log = MidRunLog(LateFrame, sc.bossActive)
  /\ impulses = 0

Init == Mounted \/ MidRun

Next ==
  \/ Tick
  \/ CommitGameOver
  \/ EffectCleanup
  \/ StartGame
  \/ StartGameSettles
  \/ HandleBriefingAccept
  \/ ResetGame
  \/ HandleResize
  \/ HandleKeyDown
  \/ HandleKeyUp

Spec == Init /\ [][Next]_vars

\* The start of a run from the mount on, frames without a canvas or a 2D context
\* included.
NextShell ==
  \/ Tick
  \/ UpdateSkipped
  \/ StartGame
  \/ StartGameSettles
  \/ HandleBriefingAccept
  \/ HandleResize
  \/ HandleKeyDown
  \/ HandleKeyUp

SpecShell == Mounted /\ [][NextShell]_vars

----------------------------------------------------------------------------
(* States in which the player moves, and states in which it fires a       *)
(* collected weapon.  Both are early in a run, before the score allows a   *)
(* boss.  In the first the player has walked (its pos.x is unknown) and:   *)
(*   stands on the floor, the keys released one tick ago;                  *)
(*   walks to the right on the platform p1, the key held;                  *)
(*   jumped from the floor FlightTicks ticks ago and still holds the key;  *)
(*   jumped from the platform p2 FallTicks ticks ago, left it in the air   *)
(*     and is about to reach the floor.                                    *)
(* A runner is on screen, in the last a jumper.  In the second the player  *)
(* stands on the floor and holds fire with any of the four weapons, no     *)
(* entity on screen, or (the flame thrower) the bullet fired 24 ticks      *)
(* before.  In a third kind of state, 200 ticks after the first powerup    *)
(* was spawned, the player stands on the platform p3 with the rifle and    *)
(* the powerup drifts by.  In a fourth, two ticks after the first enemy    *)
(* was spawned, the player is at the left or the right edge of the canvas, *)
(* having held that direction key since the start of the run.  In a fifth, *)
(* 350 ticks after the first enemy was spawned, that enemy, a drone, is    *)
(* above the player, who has not moved.                                    *)

\* The last tick of a jump from a platform before the player is back at its
\* height: vel.y is JUMP_FORCE + n * GRAVITY after n ticks.
FlightTicks == (2 * (-JUMP_FORCE)) \div GRAVITY - 1

\* The player n ticks after pl, in the air all the time and no movement key held:
\* n applications of lines 214-218.
Fly(pl, n) ==
  [pl EXCEPT !.vy = pl.vy + n * GRAVITY,
             !.y = pl.y + n * pl.vy + GRAVITY * ((n * (n + 1)) \div 2),
             !.vx = [base |-> pl.vx.base, k |-> pl.vx.k + n]]

Walker(cv) == [Standing(cv) EXCEPT !.x = UnknownX, !.vx = Vx(PLAYER_SPEED)]

\* The last tick of a jump from p2 in which the player is above the floor.
FallTicks == 60

MoveScenes ==
  { [player |-> Walker(MidRunCanvas), input |-> NoInput, impulses |-> 0,
     enemy |-> "runner"],
    [player |-> [Walker(MidRunCanvas) EXCEPT
                   !.y = PlatformsFor(MidRunCanvas)[2].y - PLAYER_HEIGHT],
     input |-> [NoInput EXCEPT !.right = TRUE], impulses |-> 0, enemy |-> "runner"],
    [player |-> Fly([Walker(MidRunCanvas) EXCEPT !.vy = JUMP_FORCE,
                                                 !.isGrounded = FALSE],
                    FlightTicks),
     input |-> [NoInput EXCEPT !.jump = TRUE], impulses |-> 1, enemy |-> "runner"],
    [player |-> Fly([Walker(MidRunCanvas) EXCEPT
                       !.y = PlatformsFor(MidRunCanvas)[3].y - PLAYER_HEIGHT,
                       !.vy = JUMP_FORCE, !.isGrounded = FALSE],
                    FallTicks),
     input |-> NoInput, impulses |-> 0, enemy |-> "jumper"] }

MoveRun ==
  /\ Running
  /\ frameCount = MoveFrame
  /\ \E sc \in MoveScenes :
       /\ player = sc.player
       /\ input = sc.input
       /\ impulses = sc.impulses
       /\ entities = <<Made(OnScreen(Enemy(sc.enemy)), MoveFrame - 60)>>
  /\ bossActive = FALSE
  /\ score = 0
  /\ bossSpawns = 0
  /\ log = MidRunLog(MoveFrame, FALSE)

\* A flame bullet that has been through n passes of the update loop.
Burning(n) == [Bullet("flame", FLAME_TTL - n) EXCEPT !.age = n]

ArmedRun ==
  /\ Running
  /\ frameCount = ArmedFrame
  /\ input = [NoInput EXCEPT !.fire = TRUE]
  /\ \E w \in WeaponTypes :
       /\ player = [Walker(MidRunCanvas) EXCEPT !.weaponType = w, !.vx = [base |-> PLAYER_SPEED, k |-> 100]]
       /\ score = IF w = "rifle" THEN 0 ELSE POWERUP_SCORE
  /\ entities \in {<<>>} \cup (IF player.weaponType = "flame"
                                THEN {<<Burning(FLAME_TTL - 5)>>} ELSE {})
  /\ bossActive = FALSE
  /\ bossSpawns = 0
  /\ log = MidRunLog(ArmedFrame, FALSE)
  /\ impulses = 0

PickupRun ==
  /\ Running
  /\ frameCount = PickupFrame
  /\ input = NoInput
  /\ player = [Walker(MidRunCanvas) EXCEPT
                 !.vx = [base |-> PLAYER_SPEED, k |-> 100],
                 !.y = PlatformsFor(MidRunCanvas)[4].y - PLAYER_HEIGHT]
  /\ entities \in {<<Made(Powerup(t), POWERUP_SPAWN_PERIOD)>> : t \in PowerupTypes}
  /\ score = 0
  /\ bossActive = FALSE
  /\ bossSpawns = 0
  /\ log = MidRunLog(PickupFrame, FALSE)
  /\ impulses = 0

\* The player at an edge of the canvas, the direction key held since the start
\* of the run, and the first enemy, a runner, on screen.
EdgeRun ==
  /\ Running
  /\ frameCount = EdgeFrame
  /\ \E dir \in {-1, 1} :
       /\ input = [NoInput EXCEPT !.left = (dir = -1), !.right = (dir = 1)]
       /\ player = [Standing(MidRunCanvas) EXCEPT
                      !.x = KnownX(IF dir = -1 THEN 0
                                   ELSE MidRunCanvas.width - PLAYER_WIDTH),
                      !.vx = Vx(dir * PLAYER_SPEED), !.direction = dir]
  /\ entities = <<Made(OnScreen(Enemy("runner")), ENEMY_SPAWN_PERIOD)>>
  /\ score = 0
  /\ bossActive = FALSE
  /\ bossSpawns = 0
  /\ log = MidRunLog(EdgeFrame, FALSE)
  /\ impulses = 0

\* The player where initLevel put it, on the floor, and the first enemy, a drone
\* spawned at frame 120 at pos.x = canvas.width, above it: 350 ticks at -2 px
\* have brought it to pos.x = 100.  The two enemies spawned since were shot.
DroneRun ==
  /\ Running
  /\ frameCount = DroneFrame
  /\ input = NoInput
  /\ player = Standing(MidRunCanvas)
  /\ entities = <<Made(OnScreen(Enemy("drone")), ENEMY_SPAWN_PERIOD)>>
  /\ score = 2 * ENEMY_SCORE
  /\ bossActive = FALSE
  /\ bossSpawns = 0
  /\ log = MidRunLog(DroneFrame, FALSE)
  /\ impulses = 0

InitMove == MoveRun \/ ArmedRun \/ PickupRun \/ EdgeRun \/ DroneRun

NextMove ==
  \/ Tick
  \/ HandleMoveKeyDown
  \/ HandleMoveKeyUp
  \/ HandleResize

SpecMove == InitMove /\ [][NextMove]_vars

----------------------------------------------------------------------------
(* A boss fight that goes on for ever.  The boss of the mid-fight state, 802 *)
(* ticks later and not hit since, has just attacked for the 40th time; a    *)
(* bomb that a drone dropped at frame 4500, before the boss was spawned, is *)
(* in the entity array.  The player stands on the floor, touches no key and *)
(* keeps clear of the boss and of what it fires.  requestAnimationFrame     *)
(* calls every frame it has scheduled: the tick is weakly fair.             *)

LiveRun ==
  /\ Running
  /\ frameCount = LiveFrame
  /\ input = NoInput
  /\ player = Standing(MidRunCanvas)
  /\ entities = <<MidRunBoss(75, 1, LiveTimer), Made(Bomb, 4500)>>
  /\ bossActive = TRUE
  /\ score = 1600
  /\ bossSpawns = 1
  /\ log = MidRunLog(LiveFrame, TRUE)
  /\ impulses = 0

NextLive == Tick

SpecLive == LiveRun /\ [][NextLive]_vars /\ WF_vars(Tick)

----------------------------------------------------------------------------
(* Claims *)

\* C1: within one run onGameOver is invoked exactly once, in the first tick that
\* ends with player hp <= 0, carrying the score at that moment, and never again
\* in a later frame callback.
C1_GameOverExactlyOnce ==
  /\ gameOverCalls <= 1
  /\ (gameStatus = "PLAYING" /\ player.hp <= 0 => gameOverCalls = 1)
  /\ (log.gameOver => log.overScore = score)

\* C2: within one run the boss is spawned exactly once; no later tick creates
\* another boss, also after the first boss has been destroyed.
C2_BossSpawnedOnce == bossSpawns <= 1

\* C3: in a tick whose spawn step runs with the boss-active flag true (the tick
\* that spawns the boss included) no ordinary enemy and no powerup is added.
C3_NoSpawnDuringBossFight ==
  log.flagAtSpawn => log.spawned \cap {"enemy", "powerup"} = {}

C3_Witness ==
  /\ log.flagAtSpawn
  /\ "boss" \in log.spawned
  /\ log.frame % ENEMY_SPAWN_PERIOD = 0
  /\ log.frame % POWERUP_SPAWN_PERIOD = 0

\* C4: once the boss is dead, the next tick whose frame counter is a multiple of
\* 120 spawns an ordinary enemy (and of 900 a powerup) if the run is still going.
C4_SpawningResumesAfterBoss ==
  (log.killsBefore > 0 /\ log.frame = frameCount /\ ~log.gameOver)
    => /\ (log.frame % ENEMY_SPAWN_PERIOD = 0 => "enemy" \in log.spawned)
       /\ (log.frame % POWERUP_SPAWN_PERIOD = 0 => "powerup" \in log.spawned)

\* C5: the entity set never holds more than one boss.
C5_AtMostOneBoss == BossCount(entities) <= 1

C5_Witness ==
  /\ BossCount(entities) = 1
  /\ "boss" \in log.spawned
  /\ score > BOSS_SPAWN_SCORE

Bullets == {entities[i] : i \in {k \in Idx(entities) : IsBullet(entities[k])}}
             \cup {e \in purged : IsBullet(e)}

\* C6: a bullet is flagged by an enemy hit on exactly the hit that equals its
\* initial penetration (5 for the laser, 1 otherwise), counted over any ticks.
C6_PenetrationLaw ==
  \A b \in Bullets :
    /\ b.pen0 \in {1, LASER_PENETRATION}
    /\ (b.flagHit # 0 => b.flagHit = b.pen0)
    /\ (b.hits >= b.pen0 => b.flagHit = b.pen0 /\ b.markedForDeletion)
    /\ (b.hits < b.pen0 => b.flagHit = 0)

C6_Witness ==
  \E b \in purged :
    IsBullet(b) /\ b.pen0 = LASER_PENETRATION /\ b.flagHit = LASER_PENETRATION

\* C7: over its lifetime a bullet removes at most as many enemy hp points as its
\* initial penetration, also when it overlaps several enemies in one tick.
C7_DamageWithinPenetration == \A b \in Bullets : b.hits <= b.pen0

HasBoss(ents) == BossCount(ents) > 0
TheBoss(ents) == ents[CHOOSE i \in Idx(ents) : IsBoss(ents[i])]

\* C8: bossPhase takes the values 0, 1, 2 only and never decreases while the
\* boss exists; once 2 it stays 2.
C8_PhaseNeverDecreases ==
  [][ /\ (HasBoss(entities') => TheBoss(entities').bossPhase \in 0..2)
      /\ (HasBoss(entities) /\ HasBoss(entities')
            => TheBoss(entities').bossPhase >= TheBoss(entities).bossPhase) ]_vars

C8_Witness ==
  /\ HasBoss(entities)
  /\ TheBoss(entities).bossPhase = 2
  /\ TheBoss(entities).attackTimer = 2400
  /\ TheBoss(entities).hp > 1

\* C9: at the end of every tick a live boss is in phase 1 only if hp >= maxHp/2
\* and in phase 2 only if hp < maxHp/2 (the switch happens on the exact tick in
\* which hp falls below half).
C9_PhaseSwitchOnExactTick ==
  HasBoss(entities) =>
    LET b == TheBoss(entities)
    IN /\ (b.bossPhase = 1 => 2 * b.hp >= b.maxHp)
       /\ (b.bossPhase = 2 => 2 * b.hp < b.maxHp)

\* C9, amended: the switch happens in the update step of the first tick that
\* starts with the boss in phase 1 and hp < maxHp/2, the tick after the one whose
\* collisions brought hp below half: phase 2 only if hp < maxHp/2; a boss left in
\* phase 1 with hp < maxHp/2 started the tick with hp >= maxHp/2 or in phase 0;
\* and a boss that starts a tick so is in phase 2 at its end.
C9_PhaseSwitchOnNextTick ==
  [][ HasBoss(entities') =>
        LET b2 == TheBoss(entities')
        IN /\ (b2.bossPhase = 2 => 2 * b2.hp < b2.maxHp)
           /\ (b2.bossPhase = 1 /\ 2 * b2.hp < b2.maxHp
                 => /\ HasBoss(entities)
                    /\ \/ 2 * TheBoss(entities).hp >= TheBoss(entities).maxHp
                       \/ TheBoss(entities).bossPhase = 0
                       \/ frameCount' = frameCount)
           /\ ((HasBoss(entities)
                 /\ TheBoss(entities).bossPhase = 1
                 /\ 2 * TheBoss(entities).hp < TheBoss(entities).maxHp
                 /\ frameCount' = frameCount + 1)
                => b2.bossPhase = 2) ]_vars

C9_Witness ==
  /\ HasBoss(entities)
  /\ TheBoss(entities).bossPhase = 2
  /\ TheBoss(entities).hp = 74
  /\ frameCount = LateFrame + 2

\* C10: at the end of every tick no entity left in the entity set has hp <= 0;
\* an enemy whose hp reaches 0 is flagged and purged in that same tick.
C10_NoDeadEntityRemains == \A i \in Idx(entities) : entities[i].hp > 0

C10_Witness ==
  \E e \in purged : e.type = "enemy" /\ e.hp <= 0 /\ e.subtype # "boss"

\* A step that is one call of update: nothing else adds 1 to the frame counter.
TickStep == frameCount' = frameCount + 1

\* C11: at the end of every tick the player's hp is a non-negative integer,
\* whatever the number of enemies and projectiles that overlap the player.
C11_PlayerHpNonNegative ==
  [][ TickStep /\ player.hp > 0 => player'.hp \in Nat ]_vars

OnPlatform(pl, plats) == \E i \in Idx(plats) : pl.y + PLAYER_HEIGHT = plats[i].y

\* C12: at the end of a tick a player that is grounded has vel.y = 0 and its feet
\* exactly on the top of a platform, whatever else happened to it in that tick,
\* a contact with an enemy or a projectile included.
C12_GroundedMeansAtRest ==
  (log.tick /\ player.isGrounded) => player.vy = 0 /\ OnPlatform(player, platforms)

\* C13: after the cleanup no flagged entity is in the entity set, the purge filter
\* applied again changes nothing, and nothing that was purged is in the set.
C13_PurgeLeavesNoFlagged ==
  /\ \A i \in Idx(entities) : ~entities[i].markedForDeletion
  /\ Cleanup(entities) = entities
  /\ \A i \in Idx(entities) : entities[i] \notin purged

C13_Witness ==
  /\ log.tick
  /\ entities # <<>>
  /\ \E b \in purged : IsBullet(b)
  /\ \E e \in purged : e.type = "enemy"

\* C14: within a tick destruction only sets the flag: every entity that was in the
\* set before the update loop or was pushed by it is in the set when the collision
\* loop ends, and leaves it in the filter pass only, which removes the flagged.
C14_RemovalOnlyInCleanup ==
  [][ TickStep => /\ Len(entities') + log'.removed = log'.present
                  /\ (log'.removed = 0 <=> purged' = {})
                  /\ Cardinality(purged') <= log'.removed ]_vars

C14_Witness ==
  /\ log.tick
  /\ log.removed >= 2
  /\ \E e \in purged : e.type = "enemy" /\ e.hp > 0
  /\ \E e \in purged : Killed(e)

\* C15: while fire is held and the weapon does not change, bullets are created in
\* exactly the ticks whose frame counter is a multiple of the weapon's rate (rifle
\* 10, spread 20, laser 25, flame 4); fire held with the rifle, facing right, for
\* the first 50 ticks creates exactly 5 bullets, each of velocity (+12, 0) and
\* penetration 1.
C15_FireRateLaw ==
  [][ TickStep =>
        LET rate == CASE player.weaponType = "rifle" -> 10
                      [] player.weaponType = "spread" -> 20
                      [] player.weaponType = "laser" -> 25
                      [] player.weaponType = "flame" -> 4
            made == Len(entities') + log'.removed - Len(entities)
                      - Cardinality(log'.spawned)
        IN /\ (log'.shots # <<>>) <=> (input.fire /\ frameCount' % rate = 0)
           /\ (BossCount(entities') = 0 /\ "enemy" \notin log'.spawned
                 /\ (\A i \in Idx(entities) : entities[i].subtype # "drone")
                 => made = Len(log'.shots))
           /\ (log'.held.ok =>
                 /\ log'.held.shots = frameCount' \div 10
                 /\ (frameCount' = 50 => log'.held.shots = 5)
                 /\ \A i \in Idx(log'.shots) :
                      /\ log'.shots[i].vx = 12
                      /\ log'.shots[i].vy = 0
                      /\ log'.shots[i].penetration = 1) ]_vars

C15_Witness ==
  /\ log.held.ok
  /\ frameCount = 50
  /\ log.held.shots = 5
  /\ log.shots = << [vx |-> 12, vy |-> 0, ttl |-> 0, penetration |-> 1] >>

\* The ordinary enemies that are in the entity set or were purged by the last tick.
Ordinary ==
  {e \in {entities[i] : i \in Idx(entities)} \cup purged :
     e.type = "enemy" /\ ~IsBoss(e)}

\* C16: every bullet hit on a non-boss enemy takes exactly 1 hp; the score grows by
\* exactly 100 in the hit that brings the hp to 0, which flags the enemy, and by 0
\* in any other hit; an enemy of 3 hp is destroyed on the third hit.
C16_HitLaw ==
  [][ TickStep =>
        /\ \A e \in Ordinary' :
             /\ e.hp = (IF e.subtype = "drone" THEN 1 ELSE 3) - e.hitsTaken
             /\ e.hp >= 0
             /\ (e.hp = 0 <=> (e.markedForDeletion /\ e \in purged'
                                 /\ e.hitsTaken = IF e.subtype = "drone" THEN 1 ELSE 3))
        /\ score' - score = 100 * log'.kills + BOSS_SCORE * (bossKills' - bossKills)
                              + POWERUP_SCORE * log'.collected ]_vars

C16_Witness ==
  /\ log.tick
  /\ log.kills = 1
  /\ \E e \in purged : Killed(e) /\ e.subtype = "runner" /\ e.hitsTaken = 3
  /\ score = 1600

\* C17: a player that stands on the floor, with no input and no contact, stays at
\* rest vertically for the next 30 ticks: isGrounded stays true, pos.y does not
\* change and vel.x is multiplied by 0.8 in each tick.
C17_RestOnFloor ==
  [][ ( /\ TickStep
        /\ player.isGrounded /\ player.vy = 0
        /\ player.y + PLAYER_HEIGHT = platforms[1].y
        /\ ~input.left /\ ~input.right
        /\ player'.hp = player.hp )
      => /\ player'.isGrounded
         /\ player'.y = player.y
         /\ player'.vy = 0
         /\ player'.vx.base = player.vx.base
         /\ player'.vx.k = IF player.vx.base = 0 THEN 0 ELSE player.vx.k + 1 ]_vars

C17_Witness ==
  /\ log.tick
  /\ frameCount = 50
  /\ input = NoInput
  /\ player.isGrounded
  /\ player.y + PLAYER_HEIGHT = platforms[1].y
  /\ player.vx = [base |-> PLAYER_SPEED, k |-> 49]

\* C18: one press of the jump key gives at most one impulse: the impulse is applied
\* only by a key-down event that finds the latch false and the player grounded;
\* until the key is released no repeat and no second press applies another one,
\* also after the player has landed with the key held.
C18_OneImpulsePerPress ==
  [][ /\ impulses' <= 1
      /\ (impulses' = 1 => input'.jump)
      /\ (impulses' = impulses + 1
            => /\ ~input.jump /\ player.isGrounded
               /\ player'.vy = JUMP_FORCE /\ ~player'.isGrounded)
      /\ (player'.vy = JUMP_FORCE /\ player.vy # JUMP_FORCE
            => impulses' = impulses + 1) ]_vars

C18_Witness ==
  /\ impulses = 1
  /\ input.jump
  /\ log.tick
  /\ player.isGrounded
  /\ player.vy = 0
  /\ frameCount > MoveFrame + 1

\* C19: once the status has left PLAYING no tick body runs: the frame counter (and
\* with it the entities, the score and the player's hp) is not changed by update
\* until the status is PLAYING again.
C19_NoTickOutsidePlaying ==
  [][ gameStatus # "PLAYING" => ~TickStep ]_vars

\* C20: a viewport resize resets the run: the entity set is empty, score and frame
\* counter are 0, the boss flag is false, the player has 100 hp, the rifle,
\* velocity (0, 0) and position (100, height - 150), and the four platforms are
\* laid out from the new canvas dimensions.
C20_ResizeResetsRun ==
  [][ HandleResize =>
        /\ entities' = <<>>
        /\ score' = 0
        /\ frameCount' = 0
        /\ ~bossActive'
        /\ player'.hp = 100
        /\ player'.weaponType = "rifle"
        /\ player'.vx.base = 0 /\ player'.vy = 0
        /\ player'.x = [known |-> TRUE, val |-> 100]
        /\ player'.y = 10 * (canvas'.height - 150)
        /\ Len(platforms') = 4
        /\ \A i \in 1..4 :
             /\ platforms'[i].x = <<0, 300, 600, 100>>[i]
             /\ platforms'[i].y = 10 * (canvas'.height - <<40, 180, 300, 350>>[i])
             /\ platforms'[i].width = <<canvas'.width, 200, 200, 150>>[i]
             /\ platforms'[i].height = <<400, 200, 200, 200>>[i] ]_vars

C20_Witness ==
  /\ frameCount = 0
  /\ log = NoLog
  /\ canvas = [width |-> 1024, height |-> 768]
  /\ platforms[1].width = 1024
  /\ player.y = 10 * (768 - 150)
  /\ player.isGrounded
  /\ input.right

\* C21: when the canvas or its 2D context is unavailable, or the status is not
\* PLAYING, the tick is skipped entirely: update returns with the frame counter,
\* the player, the entity set, the score and the boss flag unchanged.
C21_SkippedTickChangesNothing ==
  [][ ( /\ log'.call # log.call \/ TickStep
        /\ ~(log'.call.canvas /\ log'.call.ctx) \/ ClosureStatus # "PLAYING" )
      => UNCHANGED <<frameCount, player, entities, score, bossActive>> ]_vars

C21_Witness ==
  /\ gameStatus = "PLAYING"
  /\ ~log.call.ctx
  /\ ~rafPending
  /\ frameCount > 0
  /\ entities # <<>>

C23_KeysWriteOnlyInput ==
  [][input' # input => UNCHANGED <<player, entities>>]_vars

\* C24 (as the code has it): the player ends a tick on a platform exactly if, after
\* the move of that tick, it overlaps a platform horizontally, its vertical
\* velocity is >= 0 and its bottom edge lies strictly between the platform top
\* and the platform top + the platform height + 20 px; it then stands on the top
\* of such a platform.
InLandingBand(feet, p, depth) == p.y < feet /\ feet < p.y + depth

LandsWithin(pl, l, plats, extra) ==
  LET at == {i \in Idx(plats) :
               /\ OverX([x |-> l.x], plats[i], l.over)
               /\ l.vy >= 0
               /\ InLandingBand(l.feet, plats[i], plats[i].height * extra + 200)}
  IN /\ pl.isGrounded <=> at # {}
     /\ pl.isGrounded => \E i \in at : pl.y + PLAYER_HEIGHT = plats[i].y

C24_LandsWithinHeightPlusTwenty ==
  [][TickStep => LandsWithin(player', log'.land, platforms, 1)]_vars

\* A landing from more than 20 px below the top of the floor.
C24_Witness ==
  /\ log.land.checked
  /\ player.isGrounded
  /\ player.y + PLAYER_HEIGHT = platforms[1].y
  /\ log.land.feet > platforms[1].y + 200

\* C24 (as stated): the player lands only if its bottom edge lies between the
\* platform top and the platform top + 20 px, and does not land from more than
\* 20 px below the platform top.
C24_LandsWithinTwenty ==
  [][TickStep => LandsWithin(player', log'.land, platforms, 0)]_vars

\* C25: each tick integrates position once: every runner and jumper that a tick
\* has updated has moved by the vel.x it had in that tick (step = vx0).
C25_PositionIntegratedOnce ==
  [][TickStep =>
       \A i \in Idx(entities') :
         entities'[i].type = "enemy" /\ entities'[i].subtype \in {"runner", "jumper"}
           => entities'[i].step = entities'[i].vx0]_vars

\* C26: the boss is exempt from the off-screen despawn: a boss leaves the array
\* only flagged by the collision step that brought its hp to 0 or below, and the
\* boss-active flag is never true with no boss in the array.
C26_BossLeavesOnlyKilled ==
  /\ bossActive => BossCount(entities) >= 1
  /\ \A e \in purged : IsBoss(e) => e.hp <= 0 /\ ~bossActive
  /\ \A i \in Idx(entities) : IsBoss(entities[i]) => ~entities[i].markedForDeletion

\* A tick of a fight in which a position rule removed a bullet that had hit
\* nothing, the boss staying.
C26_Witness ==
  /\ bossActive
  /\ BossCount(entities) = 1
  /\ \E b \in purged : IsBullet(b) /\ b.hits = 0 /\ b.ttl = 0

\* C27: the boss's attack cadence: a boss that starts a tick in phase 0 creates no
\* projectile; in phase 1 it creates exactly one (the aimed one) in each tick in
\* which its attack timer is a multiple of 80 and none otherwise; in phase 2 it
\* creates exactly two (the aimed one, then one with velocity (-8, 0)) in each
\* tick in which its attack timer is a multiple of 40 and none otherwise.
C27_BossAttackCadence ==
  log.volley.boss =>
    LET v == log.volley
    IN log.volley.shots =
         (IF v.phase0 = 0 THEN <<>>
          ELSE IF v.phase = 1 /\ v.timer % 80 = 0
               THEN <<Entity("boss_projectile", "aimed", 1, 1)>>
          ELSE IF v.phase = 2 /\ v.timer % 40 = 0
               THEN <<Entity("boss_projectile", "aimed", 1, 1),
                      [Entity("boss_projectile", "straight", 1, 1) EXCEPT !.vx = -8]>>
          ELSE <<>>)

\* A tick in which the boss, in phase 2, fired both projectiles.
C27_Witness ==
  /\ log.volley.boss
  /\ log.volley.phase = 2
  /\ Len(log.volley.shots) = 2
  /\ \E i, j \in Idx(entities) :
       i < j /\ entities[i].subtype = "aimed" /\ entities[j].subtype = "straight"

\* C28: in the collision step each unflagged enemy or projectile that overlaps
\* the player takes exactly 10 from the player's hp and sets vel.x to -10 if the
\* source's x is greater than the player's x, else to 10, and vel.y to -5; an
\* overlapping projectile is flagged and removed, an overlapping enemy is not
\* flagged by the contact (it goes only if a bullet has brought its hp to 0).
C28_ContactLaw ==
  [][TickStep =>
       LET h == log'.hurt
       IN /\ player'.hp = h.hp0 - 10 * Len(h.srcs)
          /\ Len(h.srcs) > 0 =>
                /\ player'.vx = [base |-> IF h.right THEN -10 ELSE 10, k |-> 0]
                /\ player'.vy = -50
          /\ \A k \in Idx(h.srcs) :
                LET e == h.srcs[k]
                IN /\ e.type \in {"enemy", "boss_projectile"}
                   /\ e.type = "boss_projectile" =>
                         e.markedForDeletion /\ e \in purged'
                   /\ e.type = "enemy" /\ e.hp > 0 =>
                         ~e.markedForDeletion /\ \E i \in Idx(entities') : entities'[i] = e
    ]_vars

\* A tick in which the boss and one of its projectiles both touched the player.
C28_Witness ==
  /\ Len(log.hurt.srcs) = 2
  /\ player.hp = log.hurt.hp0 - 20
  /\ player.hp > 0
  /\ \E k \in Idx(log.hurt.srcs) : IsBoss(log.hurt.srcs[k])
  /\ \E k \in Idx(log.hurt.srcs) : log.hurt.srcs[k].type = "boss_projectile"

PowerupCount(ents) == Cardinality({i \in Idx(ents) : ents[i].type = "powerup"})

\* C29: a powerup is collected at most once: in the tick in which an unflagged
\* powerup overlaps the player the weapon becomes the powerup's kind (never the
\* rifle), the score goes up by exactly 500 for it, and the powerup is flagged and
\* leaves the array, so that no later tick meets it again.
C29_PickupLaw ==
  [][TickStep =>
       LET ps == log'.pickups
       IN /\ score' = score + 500 * Len(ps) + 100 * log'.kills
                        + 5000 * (bossKills' - bossKills)
          /\ \A k \in Idx(ps) :
                /\ ps[k].type = "powerup"
                /\ ps[k].weaponType \in {"spread", "laser", "flame"}
                /\ ps[k].markedForDeletion
                /\ ps[k] \in purged'
          /\ player'.weaponType = IF ps = <<>> THEN player.weaponType
                                  ELSE ps[Len(ps)].weaponType
          /\ PowerupCount(entities')
                <= PowerupCount(entities) - Len(ps)
                     + (IF "powerup" \in log'.spawned THEN 1 ELSE 0)
    ]_vars

\* The run after the tick that collected the powerup of frame 900, the powerup
\* gone.
C29_Witness ==
  /\ Len(log.pickups) = 1
  /\ score = POWERUP_SCORE
  /\ player.weaponType = log.pickups[1].weaponType
  /\ PowerupCount(entities) = 0
  /\ frameCount > PickupFrame + 1

\* C30: at the end of every tick the player lies horizontally inside the
\* screen: 0 <= pos.x and pos.x + width <= canvas.width, whatever the keys and
\* the knockback.
C30_PlayerInsideScreen ==
  player.x.known => 0 <= player.x.val /\ player.x.val + PLAYER_WIDTH <= canvas.width

\* The player held at the right edge in the tick after a contact threw it to the
\* right.
C30_Witness ==
  /\ frameCount > EdgeFrame + 1
  /\ player.x.known
  /\ player.x.val + PLAYER_WIDTH = canvas.width
  /\ player.hp < PLAYER_HP
  /\ player.vx.base = KNOCKBACK_VX
  /\ player.vx.k > 0

\* C31: entity ids are unique: in every reachable state no two entities in the
\* entity set carry the same id, also when several entities of one kind are
\* created in the same tick or at the same clock value.
C31_IdsUnique ==
  \A i, j \in Idx(entities) : i # j => ~SameId(entities[i], entities[j])

\* C32: every HUD snapshot is derived from the state at the end of the tick that
\* emits it: its hp is the player's hp, its score the score, its weapon the
\* equipped weapon, and its bossHp the hp of the boss after that tick's
\* collisions (0 when no boss is in the entity set).
C32_HudShowsEndOfTick ==
  log.hud.emitted =>
    /\ log.hud.hp = player.hp
    /\ log.hud.score = score
    /\ log.hud.weapon = player.weaponType
    /\ log.hud.bossHp = (IF HasBoss(entities) THEN TheBoss(entities).hp ELSE 0)

\* C33: a flame bullet has a finite lifetime: it is created with ttl 30, every
\* pass of the update loop takes 1 off, and it is flagged for removal no later
\* than in its 30th pass, wherever it is.
FlameBullets(S) == {e \in S : e.type = "bullet" /\ (e.ttl # 0 \/ e.age # 0)}

C33_FlameLifetime ==
  /\ \A k \in Idx(log.shots) : log.shots[k].ttl \in {0, FLAME_TTL}
  /\ \A e \in FlameBullets({entities[i] : i \in Idx(entities)}) :
        /\ e.age \in 1..(FLAME_TTL - 1)
        /\ e.ttl = FLAME_TTL - e.age
  /\ \A e \in FlameBullets(purged) :
        /\ e.age \in 1..FLAME_TTL
        /\ e.ttl = FLAME_TTL - e.age

\* A flame bullet that nothing else removed is purged in its 30th pass.
C33_Witness ==
  \E e \in FlameBullets(purged) : e.age = FLAME_TTL /\ e.ttl = 0 /\ e.hits = 0

\* C34: every projectile is eventually removed: as long as ticks keep running,
\* a projectile in the entity set is eventually flagged for removal and purged.
\* The case stated is the drone bomb that misses the player: when a projectile
\* with a horizontal velocity crosses an edge of the screen depends on positions
\* the model leaves to the inputs of the tick.
Present(id) == \E i \in Idx(entities) : entities[i].id = id

BombIds == {EntityId("bomb-", 4500, FALSE)}

C34_BombsEventuallyPurged ==
  []<><<TickStep>>_vars => \A id \in BombIds : Present(id) ~> ~Present(id)

\* C35: at every tick boundary the boss-active flag is true if and only if a boss
\* is in the entity set; so it is after a level reset.
C35_FlagIffBoss == bossActive <=> BossCount(entities) >= 1

\* The end of the tick that destroyed the boss: the flag is cleared and the boss
\* has left the array.
C35_Witness ==
  /\ log.tick
  /\ ~bossActive
  /\ BossCount(entities) = 0
  /\ \E e \in purged : IsBoss(e) /\ e.hp <= 0

\* C36: within a run the score never decreases and is always a non-negative
\* multiple of 100: a tick adds 100 per destroyed ordinary enemy, 500 per powerup
\* collected and 5000 per destroyed boss, nothing else changes it, and only a
\* level reset sets it back to 0.
LevelReset == frameCount' = 0 /\ score' = 0 /\ entities' = <<>>

C36_ScoreLaw ==
  [][ /\ score' >= 0
      /\ score' % ENEMY_SCORE = 0
      /\ (TickStep => score' = score + ENEMY_SCORE * log'.kills
                                     + POWERUP_SCORE * log'.collected
                                     + BOSS_SCORE * (bossKills' - bossKills))
      /\ (~TickStep => score' = score \/ LevelReset)
      /\ (score' < score => LevelReset) ]_vars

\* The end of the tick that destroyed the first boss of a run whose score was 1600.
C36_Witness ==
  /\ log.tick
  /\ bossKills = 1
  /\ log.killsBefore = 0
  /\ score = 1600 + BOSS_SCORE

====
